---- MODULE Spec2Model ----
(***************************************************************************)
(* Model of hack/helm-reference-gen/main.go: the document tree builder     *)
(* (buildDocNode, allScalars), the table-of-contents generator             *)
(* (generateTOC), the template dispatch (GenerateDocs) and the marker      *)
(* splice done by main.                                                    *)
(*                                                                         *)
(* Go strings are sequences of one-character strings, so that             *)
(* strings.ToLower, strings.Index and slicing are computed character by    *)
(* character.  Go indices are 0-based; sequences here are 1-based.         *)
(***************************************************************************)
EXTENDS Integers, Sequences, FiniteSets, TLC

VARIABLES pc, fn, args, ret

vars == <<pc, fn, args, ret>>

(***************************************************************************)
(* Bounds of the explored inputs.                                          *)
(***************************************************************************)
MaxPairs == 2

MaxSeqLen == 3

MaxPad == 1

MaxPieces == 3

(***************************************************************************)
(* Strings.                                                                *)
(***************************************************************************)
tocPrefix ==
    <<"#","#"," ","T","o","p","-","L","e","v","e","l"," ","S","t","a","n","z","a","s","\n","\n","U",
      "s","e"," ","t","h","e","s","e"," ","l","i","n","k","s"," ","t","o"," ","n","a","v","i","g",
      "a","t","e"," ","t","o"," ","a"," ","p","a","r","t","i","c","u","l","a","r"," ","t","o","p",
      "-","l","e","v","e","l"," ","s","t","a","n","z","a",".","\n","\n">>

tocSuffix ==
    <<"\n","#","#"," ","A","l","l"," ","V","a","l","u","e","s">>

startStr ==
    <<"<","!","-","-"," ","c","o","d","e","g","e","n",":"," ","s","t","a","r","t"," ","-","-",">",
      "\n","\n">>

endStr ==
    <<"\n"," "," ","<","!","-","-"," ","c","o","d","e","g","e","n",":"," ","e","n","d"," ","-","-",
      ">">>

\* The backquote character, which a TLA+ string cannot hold.
backquote == "BACKQUOTE"

recurseDirective ==
    <<"@","r","e","c","u","r","s","e",":"," ">>

UpperChars ==
    <<"A","B","C","D","E","F","G","H","I","J","K","L","M","N","O","P","Q","R","S","T","U","V","W",
      "X","Y","Z">>

LowerChars ==
    <<"a","b","c","d","e","f","g","h","i","j","k","l","m","n","o","p","q","r","s","t","u","v","w",
      "x","y","z">>

ToLowerChar(c) ==
    IF \E i \in DOMAIN UpperChars : UpperChars[i] = c
    THEN LowerChars[CHOOSE i \in DOMAIN UpperChars : UpperChars[i] = c]
    ELSE c

\* strings.ToLower
ToLower(s) == [i \in 1..Len(s) |-> ToLowerChar(s[i])]

\* strings.Index: 0-based position of the first occurrence of sub in s, or -1
Index(s, sub) ==
    LET hits == {i \in 0..(Len(s) - Len(sub)) : SubSeq(s, i + 1, i + Len(sub)) = sub}
    IN  IF hits = {} THEN -1 ELSE CHOOSE i \in hits : \A j \in hits : i <= j

\* Go slice expression s[from:], 0-based
SliceFrom(s, from) == SubSeq(s, from + 1, Len(s))

\* Go slice expression s[0:to], 0-based, to exclusive
SliceTo(s, to) == SubSeq(s, 1, to)

Digits == <<"0","1","2","3","4","5","6","7","8","9">>

RECURSIVE Itoa(_)
\* the %d verb of fmt.Sprintf, for a non-negative integer
Itoa(n) ==
    IF n < 10 THEN <<Digits[n + 1]>>
    ELSE Itoa(n \div 10) \o <<Digits[(n % 10) + 1]>>

RECURSIVE Join(_, _)
\* strings.Join
Join(strs, sep) ==
    IF Len(strs) = 0 THEN <<>>
    ELSE IF Len(strs) = 1 THEN strs[1]
    ELSE strs[1] \o sep \o Join(Tail(strs), sep)

(***************************************************************************)
(* yaml.Node: the fields of the parsed configuration tree that the builder *)
(* reads.                                                                  *)
(***************************************************************************)
YamlNode(kind, value, comment, tag, column, content) ==
    [Kind |-> kind, Value |-> value, HeadComment |-> comment, Tag |-> tag,
     Column |-> column, Content |-> content]

ScalarNode(value, comment, column) ==
    YamlNode("ScalarNode", value, comment, <<"!","!","s","t","r">>, column, <<>>)

MappingNode(content, column) ==
    YamlNode("MappingNode", <<>>, <<>>, <<"!","!","m","a","p">>, column, content)

SequenceNode(content, column) ==
    YamlNode("SequenceNode", <<>>, <<>>, <<"!","!","s","e","q">>, column, content)

AliasNode(column) ==
    YamlNode("AliasNode", <<"x">>, <<>>, <<>>, column, <<>>)

DocumentNode(content) ==
    YamlNode("DocumentNode", <<>>, <<>>, <<>>, 1, content)

(***************************************************************************)
(* DocNode and the errors.                                                 *)
(***************************************************************************)
\* DocNode{}: the zero value
EmptyDocNode ==
    [Column |-> 0, ParentBreadcrumb |-> <<>>, ParentWasMap |-> FALSE, Key |-> <<>>,
     Comment |-> <<>>, KindTag |-> <<>>, Default |-> <<>>, Children |-> <<>>]

NilError ==
    [type |-> "nil", ParentAnchor |-> <<>>, CurrAnchor |-> <<>>, format |-> "", fmtArgs |-> <<>>]

ParseError(parentAnchor, currAnchor, format, fmtArgs) ==
    [type |-> "ParseError", ParentAnchor |-> parentAnchor, CurrAnchor |-> currAnchor,
     format |-> format, fmtArgs |-> fmtArgs]

\* fmt.Errorf
Errorf(format, fmtArgs) ==
    [type |-> "errorString", ParentAnchor |-> <<>>, CurrAnchor |-> <<>>,
     format |-> format, fmtArgs |-> fmtArgs]

\* A call that returned (node, err); calls lists the arguments of the
\* parseNodeContent calls the invocation itself made.
Return(node, err, calls) == [outcome |-> "return", node |-> node, err |-> err, calls |-> calls]

\* A call ended by a run-time panic (index out of range): nothing is returned.
Panic(calls) == [outcome |-> "panic", node |-> EmptyDocNode, err |-> NilError, calls |-> calls]

\* DocNode.HTMLAnchor: breadcrumb and lowercased key
HTMLAnchor(n) ==
    IF n.ParentBreadcrumb = <<>> THEN ToLower(n.Key)
    ELSE n.ParentBreadcrumb \o <<"-">> \o ToLower(n.Key)

\* recurseAnnotation.FindStringSubmatch: <<>> when the comment has no
\* "@recurse: <value>" directive, else <<whole match, value>>; the value runs
\* to the end of the line.
FindRecurseSubmatch(comment) ==
    LET at == Index(comment, recurseDirective)
    IN  IF at = -1 THEN <<>>
        ELSE LET rest == SliceFrom(comment, at + Len(recurseDirective))
                 nl   == Index(rest, <<"\n">>)
                 val  == IF nl = -1 THEN rest ELSE SliceTo(rest, nl)
             IN  <<recurseDirective \o val, val>>

\* toInlineYaml: single-line bracketed, comma-separated literal
toInlineYaml(content) ==
    IF \E i \in DOMAIN content : content[i].Kind # "ScalarNode"
    THEN [str |-> <<>>, err |-> Errorf("cannot marshal", <<>>)]
    ELSE [str |-> <<"[">> \o Join([i \in 1..Len(content) |-> content[i].Value], <<",", " ">>)
                  \o <<"]">>,
          err |-> NilError]

(***************************************************************************)
(* The document tree builder.                                              *)
(***************************************************************************)
\* allScalars: content contains only scalar nodes with no children
allScalars(content) ==
    \A i \in DOMAIN content : ~(content[i].Kind # "ScalarNode" \/ Len(content[i].Content) > 0)

\* noRecurse, testing the captured value against "true"
noRecurseMatchesTrue(currNode) ==
    LET match == FindRecurseSubmatch(currNode.HeadComment)
    IN  Len(match) > 0 /\ match[2] = <<"t","r","u","e">>

\* line 129: the key's comment carries @recurse: false
noRecurse(currNode) ==
    LET match == FindRecurseSubmatch(currNode.HeadComment)
    IN  Len(match) > 0 /\ match[2] = <<"f","a","l","s","e">>

\* lines 130-136: the node built for an annotated key
noRecurseNode(currNode, parentBreadcrumb) ==
    [EmptyDocNode EXCEPT !.Column = currNode.Column,
                         !.ParentBreadcrumb = parentBreadcrumb,
                         !.ParentWasMap = FALSE,
                         !.Key = currNode.Value,
                         !.Comment = currNode.HeadComment]

\* line 140: the guard of "nodes should come in pairs"
pairMissing(nodeContent, nodeContentIdx) == Len(nodeContent) < nodeContentIdx + 1

\* lines 141-145
pairError(nodeContent, nodeContentIdx, currNode, parentBreadcrumb) ==
    ParseError(parentBreadcrumb, currNode.Value,
               "content length incorrect, expected %d got %d",
               <<Itoa(nodeContentIdx + 1), Itoa(Len(nodeContent))>>)

\* leafNode, with the Default field left out of the literal
leafNodeNoDefault(currNode, next, parentBreadcrumb, parentWasMap, default) ==
    [EmptyDocNode EXCEPT !.ParentBreadcrumb = parentBreadcrumb,
                         !.ParentWasMap = parentWasMap,
                         !.Column = currNode.Column,
                         !.Key = currNode.Value,
                         !.Comment = currNode.HeadComment,
                         !.KindTag = next.Tag]

\* lines 154-162, 186-195, 208-217: a leaf with a default
leafNode(currNode, next, parentBreadcrumb, parentWasMap, default) ==
    [EmptyDocNode EXCEPT !.ParentBreadcrumb = parentBreadcrumb,
                         !.ParentWasMap = parentWasMap,
                         !.Column = currNode.Column,
                         !.Key = currNode.Value,
                         !.Comment = currNode.HeadComment,
                         !.KindTag = next.Tag,
                         !.Default = default]

\* lines 166-173, 221-228: a container before its children are built
containerNode(currNode, next, parentBreadcrumb, parentWasMap) ==
    [EmptyDocNode EXCEPT !.ParentBreadcrumb = parentBreadcrumb,
                         !.ParentWasMap = parentWasMap,
                         !.Column = currNode.Column,
                         !.Key = currNode.Value,
                         !.Comment = currNode.HeadComment,
                         !.KindTag = next.Tag]

\* childrenCall, handing the received parentWasMap on to the children
childrenCallPassesFlag(docNode, next, parentWasMap) ==
    [nodeContent |-> next.Content, parentBreadcrumb |-> HTMLAnchor(docNode),
     parentWasMap |-> parentWasMap]

\* lines 175, 230: the arguments of the recursive parseNodeContent call
childrenCall(docNode, next, parentWasMap) ==
    [nodeContent |-> next.Content, parentBreadcrumb |-> HTMLAnchor(docNode),
     parentWasMap |-> FALSE]

\* containerResult, returning the node built so far together with the error
containerResultKeepsNode(docNode, built, call) ==
    IF built.outcome = "panic" THEN Panic(<<call>>)
    ELSE Return([docNode EXCEPT !.Children = built.nodes], built.err, <<call>>)

\* lines 176-179, 231-234: the result of a container once its children came back
containerResult(docNode, built, call) ==
    IF built.outcome = "panic" THEN Panic(<<call>>)
    ELSE IF built.err # NilError THEN Return(EmptyDocNode, built.err, <<call>>)
    ELSE Return([docNode EXCEPT !.Children = built.nodes], NilError, <<call>>)

\* fellThrough, with the breadcrumb argument left out
fellThroughNoBreadcrumb(parentBreadcrumb) ==
    Errorf("fell through cases unexpectedly at breadcrumb: %s", <<>>)

\* line 237
fellThrough(parentBreadcrumb) ==
    Errorf("fell through cases unexpectedly at breadcrumb: %s", <<parentBreadcrumb>>)

\* inlineSequence, taking the default from the sequence node's own value
inlineSequenceUsesValue(currNode, next, parentBreadcrumb, parentWasMap) ==
    Return(leafNode(currNode, next, parentBreadcrumb, parentWasMap, next.Value), NilError, <<>>)

\* lines 199-217: a sequence full of scalars
inlineSequence(currNode, next, parentBreadcrumb, parentWasMap) ==
    LET inlineYaml == toInlineYaml(next.Content)
    IN  IF inlineYaml.err # NilError
        THEN Return(EmptyDocNode,
                    ParseError(parentBreadcrumb, currNode.Value, inlineYaml.err.format, <<>>),
                    <<>>)
        ELSE Return(leafNode(currNode, next, parentBreadcrumb, parentWasMap, inlineYaml.str),
                    NilError, <<>>)

RECURSIVE buildDocNode(_, _, _, _, _)
RECURSIVE parseNodeContent(_, _, _)
RECURSIVE parseNodeContentFrom(_, _, _, _)
RECURSIVE parseNodeContentNext(_, _, _, _, _)

\* parseNodeContent: a child followed by the children after it
childrenJoined(node, rest) ==
    IF rest.outcome = "panic" \/ rest.err # NilError THEN rest
    ELSE [rest EXCEPT !.nodes = <<node>> \o rest.nodes]

\* parseNodeContent: the first failure aborts the walk
parseNodeContentNext(r, i, nodeContent, parentBreadcrumb, parentWasMap) ==
    IF r.outcome = "panic" THEN [outcome |-> "panic", nodes |-> <<>>, err |-> NilError]
    ELSE IF r.err # NilError THEN [outcome |-> "return", nodes |-> <<>>, err |-> r.err]
    ELSE childrenJoined(r.node,
                        parseNodeContentFrom(i + 2, nodeContent, parentBreadcrumb,
                                             parentWasMap))

\* parseNodeContent: the children of a content list, built pair by pair from
\* index i on
parseNodeContentFrom(i, nodeContent, parentBreadcrumb, parentWasMap) ==
    IF i >= Len(nodeContent) THEN [outcome |-> "return", nodes |-> <<>>, err |-> NilError]
    ELSE parseNodeContentNext(buildDocNode(i, nodeContent[i + 1], nodeContent,
                                           parentBreadcrumb, parentWasMap),
                              i, nodeContent, parentBreadcrumb, parentWasMap)

parseNodeContent(nodeContent, parentBreadcrumb, parentWasMap) ==
    parseNodeContentFrom(0, nodeContent, parentBreadcrumb, parentWasMap)

\* lines 175-179, 230-234: build the children, then the result
recurseInto(docNode, call) ==
    containerResult(docNode,
                    parseNodeContent(call.nodeContent, call.parentBreadcrumb,
                                     call.parentWasMap),
                    call)

\* lines 166-179, 221-234: a container and its children
container(docNode, next, parentWasMap) ==
    recurseInto(docNode, childrenCall(docNode, next, parentWasMap))

\* lines 150-237: the switch on the kind of the paired value
buildFromValue(currNode, next, parentBreadcrumb, parentWasMap) ==
    CASE next.Kind = "ScalarNode" ->
           Return(leafNode(currNode, next, parentBreadcrumb, parentWasMap, next.Value),
                  NilError, <<>>)
      [] next.Kind = "MappingNode" ->
           container(containerNode(currNode, next, parentBreadcrumb, parentWasMap), next,
                     parentWasMap)
      [] next.Kind = "SequenceNode" ->
           IF Len(next.Content) = 0
           THEN Return(leafNode(currNode, next, parentBreadcrumb, parentWasMap, <<"[", "]">>),
                       NilError, <<>>)
           ELSE IF allScalars(next.Content)
           THEN inlineSequence(currNode, next, parentBreadcrumb, parentWasMap)
           ELSE container(containerNode(currNode, next, parentBreadcrumb, parentWasMap),
                          next, parentWasMap)
      [] OTHER -> Return(EmptyDocNode, fellThrough(parentBreadcrumb), <<>>)

\* lines 126-238
buildDocNode(nodeContentIdx, currNode, nodeContent, parentBreadcrumb, parentWasMap) ==
    IF noRecurse(currNode)
    THEN Return(noRecurseNode(currNode, parentBreadcrumb), NilError, <<>>)
    ELSE IF pairMissing(nodeContent, nodeContentIdx)
    THEN Return(EmptyDocNode,
                pairError(nodeContent, nodeContentIdx, currNode, parentBreadcrumb), <<>>)
    ELSE IF nodeContentIdx + 1 >= Len(nodeContent)
    THEN Panic(<<>>)  \* line 148: nodeContent[nodeContentIdx+1] is out of range
    ELSE buildFromValue(currNode, nodeContent[nodeContentIdx + 2], parentBreadcrumb,
                        parentWasMap)

(***************************************************************************)
(* The table of contents.                                                  *)
(***************************************************************************)
\* tocLine, linking to the key as written
tocLineKeepsCase(c) ==
    <<"-", " ", "[", backquote>> \o c.Key \o <<backquote, "]", "(", "#">> \o c.Key
        \o <<")", "\n">>

\* line 244: one markdown link line, text c.Key, target strings.ToLower(c.Key)
tocLine(c) ==
    <<"-", " ", "[", backquote>> \o c.Key \o <<backquote, "]", "(", "#">> \o ToLower(c.Key)
        \o <<")", "\n">>

RECURSIVE tocLines(_)
\* lines 243-245: the loop over node.Children
tocLines(children) ==
    IF Len(children) = 0 THEN <<>>
    ELSE tocLine(Head(children)) \o tocLines(Tail(children))

\* lines 240-248
generateTOC(node) == tocPrefix \o tocLines(node.Children) \o tocSuffix

(***************************************************************************)
(* Parse, the formatters and GenerateDocs.                                 *)
(***************************************************************************)
\* Parse: the root node over the children built
rootNode(built) ==
    IF built.outcome = "panic"
    THEN [outcome |-> "panic", node |-> EmptyDocNode, err |-> NilError]
    ELSE IF built.err # NilError
    THEN [outcome |-> "return", node |-> EmptyDocNode, err |-> built.err]
    ELSE [outcome |-> "return", node |-> [EmptyDocNode EXCEPT !.Children = built.nodes],
          err |-> NilError]

\* Parse: unmarshal the text, then build the children of the root mapping
Parse(yamlStr) ==
    IF ~yamlStr.wellFormed
    THEN [outcome |-> "return", node |-> EmptyDocNode,
          err |-> Errorf("yaml: unmarshal error", <<>>)]
    ELSE rootNode(parseNodeContent(yamlStr.document.Content[1].Content, <<>>, FALSE))

RECURSIVE renderRows(_, _)
\* one row per node, depth first in source order
renderRows(children, bullet) ==
    IF Len(children) = 0 THEN <<>>
    ELSE LET c == Head(children)
         IN  bullet \o <<backquote>> \o c.Key \o <<backquote, " ">> \o c.Default \o <<"\n">>
             \o renderRows(c.Children, bullet)
             \o renderRows(Tail(children), bullet)

\* FormatAsTables: the table of contents, then the tables
FormatAsTables(node) ==
    [str |-> generateTOC(node) \o <<"\n">> \o renderRows(node.Children, <<"|", " ">>),
     err |-> NilError]

\* FormatAsList: the table of contents, then the list
FormatAsList(node) ==
    [str |-> generateTOC(node) \o <<"\n">> \o renderRows(node.Children, <<"-", " ">>),
     err |-> NilError]

tableName == <<"t","a","b","l","e">>

listName == <<"l","i","s","t">>

\* line 111
unknownTemplate(templateName) == Errorf("unknown template name: %q", <<templateName>>)

\* the result of GenerateDocs; calls is the order in which Parse and the
\* formatters ran
Generated(f, calls) == [outcome |-> "return", str |-> f.str, err |-> f.err, calls |-> calls]

\* lines 102-112: what follows the call of Parse
afterParse(parsed, templateName) ==
    IF parsed.outcome = "panic"
    THEN [outcome |-> "panic", str |-> <<>>, err |-> NilError, calls |-> <<"Parse">>]
    ELSE IF parsed.err # NilError
    THEN Generated([str |-> <<>>, err |-> parsed.err], <<"Parse">>)
    ELSE IF templateName = tableName
    THEN Generated(FormatAsTables(parsed.node), <<"Parse", "FormatAsTables">>)
    ELSE IF templateName = listName
    THEN Generated(FormatAsList(parsed.node), <<"Parse", "FormatAsList">>)
    ELSE Generated([str |-> <<>>, err |-> unknownTemplate(templateName)], <<"Parse">>)

\* lines 100-113
GenerateDocs(yamlStr, templateName) == afterParse(Parse(yamlStr), templateName)

(***************************************************************************)
(* main: the splice between the codegen markers.                           *)
(***************************************************************************)
\* line 90
spliceMdx(helmReferenceContents, start, end, out) ==
    SliceTo(helmReferenceContents, start + Len(startStr)) \o out
        \o SliceFrom(helmReferenceContents, end)

\* The run of main: exit code, what the helm reference file holds afterwards,
\* whether it was written, and the positions found for the two markers.
MainResult(exit, file, wrote, start, end, out) ==
    [outcome |-> "exit", exit |-> exit, file |-> file, wrote |-> wrote,
     start |-> start, end |-> end, out |-> out]

\* lines 80-97: the two markers were searched for
afterMarkers(start, end, out, helmFile, writeOk) ==
    IF start = -1 THEN MainResult(1, helmFile.data, FALSE, start, -1, out)
    ELSE IF end = -1 THEN MainResult(1, helmFile.data, FALSE, start, end, out)
    ELSE IF ~writeOk THEN MainResult(1, helmFile.data, FALSE, start, end, out)
    ELSE MainResult(0, spliceMdx(helmFile.data, start, end, out), TRUE, start, end, out)

\* lines 55-97: GenerateDocs came back
afterGenerate(gen, validateFlag, helmFile, writeOk) ==
    IF gen.outcome = "panic"
    THEN [MainResult(2, helmFile.data, FALSE, -1, -1, <<>>) EXCEPT !.outcome = "panic"]
    ELSE IF gen.err # NilError THEN MainResult(1, helmFile.data, FALSE, -1, -1, <<>>)
    ELSE IF validateFlag THEN MainResult(0, helmFile.data, FALSE, -1, -1, gen.str)
    ELSE IF ~helmFile.exists THEN MainResult(1, helmFile.data, FALSE, -1, -1, gen.str)
    ELSE afterMarkers(Index(helmFile.data, startStr), Index(helmFile.data, endStr),
                      gen.str, helmFile, writeOk)

\* lines 22, 30-45: the Consul repo path the helm reference file is taken from
consulRepoPath(nargs, validateFlag) ==
    IF validateFlag \/ nargs < 2 THEN "../../../consul" ELSE "os.Args[1]"

\* lines 19-98
main(nargs, validateFlag, templateFlag, valuesFile, helmFile, writeOk) ==
    [consulRepoPath |-> consulRepoPath(nargs, validateFlag)] @@
    (IF nargs > 5 THEN MainResult(1, helmFile.data, FALSE, -1, -1, <<>>)
     ELSE IF ~valuesFile.exists THEN MainResult(1, helmFile.data, FALSE, -1, -1, <<>>)
     ELSE afterGenerate(GenerateDocs(valuesFile.data, templateFlag), validateFlag, helmFile,
                        writeOk))

(***************************************************************************)
(* The inputs explored.                                                    *)
(***************************************************************************)
docComment ==
    <<"#"," ","d","o","c">>

noRecurseComment ==
    <<"#"," ","d","o","c","\n","#"," ","@","r","e","c","u","r","s","e",":"," ","f","a","l","s","e">>

recurseTrueComment ==
    <<"#"," ","@","r","e","c","u","r","s","e",":"," ","t","r","u","e">>

\* g: 1
leafMapping ==
    MappingNode(<<ScalarNode(<<"g">>, docComment, 5), ScalarNode(<<"1">>, <<>>, 8)>>, 5)

\* a scalar that carries content of its own
scalarWithContent ==
    [ScalarNode(<<"w">>, <<>>, 5) EXCEPT !.Content = <<ScalarNode(<<"1">>, <<>>, 5)>>]

InnerKeys ==
    {ScalarNode(<<"a">>, docComment, 3), ScalarNode(<<"B">>, noRecurseComment, 3)}

InnerValues ==
    {ScalarNode(<<"1">>, <<>>, 6), ScalarNode(<<>>, <<>>, 6), AliasNode(6),
     MappingNode(<<>>, 6), leafMapping}

SeqElems ==
    {ScalarNode(<<"1">>, <<>>, 5), ScalarNode(<<"A","b">>, <<>>, 5), scalarWithContent,
     leafMapping, ScalarNode(<<"B">>, noRecurseComment, 5)}

RECURSIVE PairLists(_, _, _)
\* the content lists of mappings of at most n key/value pairs
PairLists(keys, values, n) ==
    IF n = 0 THEN {<<>>}
    ELSE LET shorter == PairLists(keys, values, n - 1)
         IN  shorter \cup {l \o <<k, v>> : l \in shorter, k \in keys, v \in values}

RECURSIVE ElemLists(_, _)
\* the content lists of sequences of at most n elements
ElemLists(elems, n) ==
    IF n = 0 THEN {<<>>}
    ELSE LET shorter == ElemLists(elems, n - 1)
         IN  shorter \cup {l \o <<e>> : l \in shorter, e \in elems}

Mappings == {MappingNode(c, 3) : c \in PairLists(InnerKeys, InnerValues, MaxPairs)}

SequenceNodes == {SequenceNode(c, 3) : c \in ElemLists(SeqElems, MaxSeqLen)}

TopKeys ==
    {ScalarNode(<<"a","B">>, docComment, 1), ScalarNode(<<"c">>, noRecurseComment, 1),
     ScalarNode(<<"d">>, recurseTrueComment, 1)}

TopValues == InnerValues \cup Mappings \cup SequenceNodes \cup {DocumentNode(<<>>)}

RECURSIVE PadPairs(_)
\* n well-formed key/value pairs that precede the pair under test
PadPairs(n) ==
    IF n = 0 THEN <<>>
    ELSE PadPairs(n - 1) \o <<ScalarNode(<<"z">>, docComment, 1), ScalarNode(<<"0">>, <<>>, 4)>>

Breadcrumbs == {<<>>, <<"p">>}

BuildInputs ==
    {[nodeContentIdx |-> 2 * n, nodeContent |-> PadPairs(n) \o <<k>> \o tail,
      parentBreadcrumb |-> b, parentWasMap |-> w] :
        n \in 0..MaxPad, k \in TopKeys, tail \in {<<>>} \cup {<<v>> : v \in TopValues},
        b \in Breadcrumbs, w \in BOOLEAN}

MalformedYaml == [wellFormed |-> FALSE, document |-> DocumentNode(<<>>)]

YamlStrs ==
    {MalformedYaml} \cup {[wellFormed |-> TRUE, document |-> DocumentNode(<<m>>)] : m \in Mappings}

Templates == {tableName, listName, <<"j","s","o","n">>}

GenerateInputs == {[yamlStr |-> y, templateName |-> t] : y \in YamlStrs, t \in Templates}

TOCInputs ==
    {[node |-> Parse(y).node] : y \in {z \in YamlStrs : Parse(z).err = NilError}}

NoFile == [exists |-> FALSE, data |-> <<>>]

File(data) == [exists |-> TRUE, data |-> data]

\* the end marker without its leading newline: after a start marker it forms
\* an end marker that shares that newline
endTail == Tail(endStr)

Pieces == {startStr, endStr, endTail, <<"x">>}

HelmContents == ElemLists(Pieces, MaxPieces)

RECURSIVE Flatten(_)
Flatten(pieces) == IF Len(pieces) = 0 THEN <<>> ELSE Head(pieces) \o Flatten(Tail(pieces))

ValuesFiles ==
    {NoFile, File(MalformedYaml),
     File([wellFormed |-> TRUE, document |-> DocumentNode(<<leafMapping>>)])}

MainInputs ==
    {[nargs |-> n, validateFlag |-> v, templateFlag |-> t, valuesFile |-> y, helmFile |-> h,
      writeOk |-> w] :
        n \in {1, 2, 6}, v \in BOOLEAN, t \in Templates, y \in ValuesFiles,
        h \in {NoFile} \cup {File(Flatten(c)) : c \in HelmContents}, w \in BOOLEAN}

(***************************************************************************)
(* The state machine: Init draws one call and its inputs, the action of    *)
(* the called function runs it.                                            *)
(***************************************************************************)
NoResult == [outcome |-> "none"]

Init ==
    /\ pc = "ready"
    /\ ret = NoResult
    /\ \/ fn = "buildDocNode" /\ args \in BuildInputs
       \/ fn = "generateTOC" /\ args \in TOCInputs
       \/ fn = "GenerateDocs" /\ args \in GenerateInputs
       \/ fn = "main" /\ args \in MainInputs

RunBuildDocNode ==
    /\ pc = "ready" /\ fn = "buildDocNode"
    /\ ret' = buildDocNode(args.nodeContentIdx, args.nodeContent[args.nodeContentIdx + 1],
                           args.nodeContent, args.parentBreadcrumb, args.parentWasMap)
    /\ pc' = "done"
    /\ UNCHANGED <<fn, args>>

RunGenerateTOC ==
    /\ pc = "ready" /\ fn = "generateTOC"
    /\ ret' = [outcome |-> "return", str |-> generateTOC(args.node)]
    /\ pc' = "done"
    /\ UNCHANGED <<fn, args>>

RunGenerateDocs ==
    /\ pc = "ready" /\ fn = "GenerateDocs"
    /\ ret' = GenerateDocs(args.yamlStr, args.templateName)
    /\ pc' = "done"
    /\ UNCHANGED <<fn, args>>

RunMain ==
    /\ pc = "ready" /\ fn = "main"
    /\ ret' = main(args.nargs, args.validateFlag, args.templateFlag, args.valuesFile,
                   args.helmFile, args.writeOk)
    /\ pc' = "done"
    /\ UNCHANGED <<fn, args>>

Next == RunBuildDocNode \/ RunGenerateTOC \/ RunGenerateDocs \/ RunMain

Spec == Init /\ [][Next]_vars

(***************************************************************************)
(* Properties.                                                             *)
(***************************************************************************)
BuildDone == pc = "done" /\ fn = "buildDocNode"

\* the key node handed to buildDocNode
CurrNode == args.nodeContent[args.nodeContentIdx + 1]

\* the key has a paired value after it
HasNext == Len(args.nodeContent) >= args.nodeContentIdx + 2

\* the paired value
NextNode == args.nodeContent[args.nodeContentIdx + 2]

\* the key's head comment carries @recurse: false
Annotated == CurrNode.HeadComment = noRecurseComment

PlainScalars(content) ==
    \A i \in DOMAIN content : content[i].Kind = "ScalarNode" /\ content[i].Content = <<>>

\* C1: a key that is the last entry of its content list (no paired value) and
\* has no @recurse: false annotation makes buildDocNode return the empty node
\* and a ParseError carrying the parent breadcrumb and the key's value; the
\* call never panics.
C1_MissingValueIsParseError ==
    (BuildDone /\ ~HasNext /\ ~Annotated)
        => /\ ret.outcome = "return"
           /\ ret.node = EmptyDocNode
           /\ ret.err.type = "ParseError"
           /\ ret.err.ParentAnchor = args.parentBreadcrumb
           /\ ret.err.CurrAnchor = CurrNode.Value

\* C2: a key annotated with @recurse: false yields, without error, a node with
\* no children and no Default, built from the key and its comment only,
\* whatever the paired value is and also when it is missing.
C2_NoRecurseIsBareLeaf ==
    (BuildDone /\ Annotated)
        => /\ ret.outcome = "return"
           /\ ret.err = NilError
           /\ ret.calls = <<>>
           /\ ret.node = [EmptyDocNode EXCEPT !.Column = CurrNode.Column,
                                              !.ParentBreadcrumb = args.parentBreadcrumb,
                                              !.Key = CurrNode.Value,
                                              !.Comment = CurrNode.HeadComment]

\* C2 witness: an annotated key whose value is a mapping that has a child
\* with children of its own
C2_Witness ==
    /\ BuildDone /\ Annotated /\ HasNext
    /\ NextNode.Kind = "MappingNode"
    /\ \E i \in DOMAIN NextNode.Content : NextNode.Content[i] = leafMapping
    /\ ret.outcome = "return" /\ ret.node.Children = <<>>

\* C3: with a template name other than table or list, GenerateDocs returns the
\* unknown-template error for every input and never invokes Parse.
C3_UnknownTemplateBeforeParse ==
    (pc = "done" /\ fn = "GenerateDocs" /\ args.templateName \notin {tableName, listName})
        => /\ ret.outcome = "return"
           /\ ret.str = <<>>
           /\ ret.err = unknownTemplate(args.templateName)
           /\ ret.calls = <<>>

\* the link line the table of contents holds for a child
ExpectedLine(c) ==
    <<"-", " ", "[", backquote>> \o c.Key \o <<backquote, "]", "(", "#">> \o ToLower(c.Key)
        \o <<")", "\n">>

\* C4: generateTOC returns the fixed prefix, one link line per direct child of
\* the root in the children's order (text the key, target the lowercased
\* key), then the fixed suffix; deeper nodes contribute no line.
C4_TOCListsDirectChildren ==
    (pc = "done" /\ fn = "generateTOC")
        => LET children == args.node.Children
               lines    == Flatten([i \in 1..Len(children) |-> ExpectedLine(children[i])])
           IN  /\ ret.str = tocPrefix \o lines \o tocSuffix
               /\ Cardinality({i \in DOMAIN ret.str : ret.str[i] = "["}) = Len(children)

\* C4 witness: a root with two children, one upper-case key, one child with
\* children of its own
C4_Witness ==
    /\ pc = "done" /\ fn = "generateTOC"
    /\ Len(args.node.Children) = 2
    /\ \E i \in DOMAIN args.node.Children : Len(args.node.Children[i].Children) > 0
    /\ \E i \in DOMAIN args.node.Children : args.node.Children[i].Key = <<"B">>

\* C5: an unannotated key whose value is a sequence of plain scalars yields a
\* leaf with no children whose Default is "[" + the values joined by ", " +
\* "]"; for the empty sequence the Default is "[]".
C5_ScalarSequenceInline ==
    (BuildDone /\ ~Annotated /\ HasNext /\ NextNode.Kind = "SequenceNode"
       /\ PlainScalars(NextNode.Content))
        => LET values == [i \in 1..Len(NextNode.Content) |-> NextNode.Content[i].Value]
           IN  /\ ret.outcome = "return"
               /\ ret.err = NilError
               /\ ret.node.Children = <<>>
               /\ ret.node.Default = <<"[">> \o Join(values, <<",", " ">>) \o <<"]">>
               /\ (values = <<>> => ret.node.Default = <<"[", "]">>)

\* C5 witness: a sequence of three scalars rendered inline
C5_Witness ==
    /\ BuildDone /\ ~Annotated /\ HasNext /\ NextNode.Kind = "SequenceNode"
    /\ PlainScalars(NextNode.Content) /\ Len(NextNode.Content) = 3
    /\ ret.node.Default = <<"[", "1", ",", " ", "A", "b", ",", " ", "1", "]">>

\* a successful return for an unannotated key
BuiltPlain == BuildDone /\ ~Annotated /\ ret.outcome = "return" /\ ret.err = NilError

C7_AllOrNothing ==
    /\ (BuildDone /\ ret.calls # <<>>)
          => LET call  == ret.calls[1]
                 built == parseNodeContent(call.nodeContent, call.parentBreadcrumb,
                                           call.parentWasMap)
             IN  /\ (built.outcome = "return" /\ built.err # NilError)
                       => ret = Return(EmptyDocNode, built.err, ret.calls)
                 /\ (built.outcome = "return" /\ built.err = NilError)
                       => /\ ret.outcome = "return" /\ ret.err = NilError
                          /\ ret.node.Children = built.nodes
                          /\ 2 * Len(ret.node.Children) >= Len(call.nodeContent)
                 /\ built.outcome = "panic" => ret.outcome = "panic"
    /\ (BuildDone /\ ret.outcome = "return" /\ ret.err # NilError) => ret.node = EmptyDocNode
    /\ (pc = "done" /\ fn = "GenerateDocs" /\ Parse(args.yamlStr).outcome = "return"
          /\ Parse(args.yamlStr).err # NilError)
          => /\ ret.outcome = "return"
             /\ ret.str = <<>>
             /\ ret.err = Parse(args.yamlStr).err
             /\ ret.calls = <<"Parse">>

\* C7 witness: a mapping of two pairs whose first pair builds and whose second
\* pair fails
C7_Witness ==
    /\ BuildDone /\ ~Annotated /\ HasNext
    /\ NextNode.Kind = "MappingNode" /\ Len(NextNode.Content) = 4
    /\ NextNode.Content[2].Kind = "ScalarNode" /\ NextNode.Content[4].Kind = "AliasNode"
    /\ ~noRecurse(NextNode.Content[3])
    /\ ret.outcome = "return" /\ ret.err.type = "errorString" /\ ret.node = EmptyDocNode

\* C8: when the file holds both markers, the file written is the file read
\* with only the text strictly between the start marker and the end marker
\* replaced: the part up to and including the start marker and the part from
\* the end marker onward are disjoint parts of the file read and appear once.
C8_OnlyBetweenMarkers ==
    (pc = "done" /\ fn = "main" /\ ret.wrote)
        => LET old == args.helmFile.data
           IN  /\ ret.start + Len(startStr) <= ret.end
               /\ ret.file = SliceTo(old, ret.start + Len(startStr)) \o ret.out
                                \o SliceFrom(old, ret.end)
               /\ Len(ret.file) - Len(ret.out) <= Len(old)

\* the value is a container that buildDocNode recurses into
Recurses ==
    /\ ~Annotated /\ HasNext
    /\ \/ NextNode.Kind = "MappingNode"
       \/ NextNode.Kind = "SequenceNode" /\ ~PlainScalars(NextNode.Content)

\* the anchor of the node built for the key
OwnAnchor ==
    IF args.parentBreadcrumb = <<>> THEN ToLower(CurrNode.Value)
    ELSE args.parentBreadcrumb \o <<"-">> \o ToLower(CurrNode.Value)

\* C9: when buildDocNode recurses into a mapping or a sequence with a
\* non-scalar element, the children are built with parentWasMap = false and
\* with the container's own anchor as parent breadcrumb, whatever the kind of
\* the container and the parentWasMap it received; the container keeps the
\* parentWasMap it received.
C9_ChildrenGetFalseAndAnchor ==
    (BuildDone /\ Recurses)
        => /\ Len(ret.calls) = 1
           /\ ret.calls[1].nodeContent = NextNode.Content
           /\ ret.calls[1].parentWasMap = FALSE
           /\ ret.calls[1].parentBreadcrumb = OwnAnchor
           /\ (ret.outcome = "return" /\ ret.err = NilError)
                 => /\ ret.node.ParentWasMap = args.parentWasMap
                    /\ \A i \in DOMAIN ret.node.Children :
                          /\ ret.node.Children[i].ParentWasMap = FALSE
                          /\ ret.node.Children[i].ParentBreadcrumb = OwnAnchor

\* C9 witness: a mapping reached with parentWasMap = true whose child is
\* built with false
C9_Witness ==
    /\ BuildDone /\ Recurses /\ NextNode.Kind = "MappingNode" /\ args.parentWasMap
    /\ args.parentBreadcrumb # <<>>
    /\ ret.outcome = "return" /\ ret.err = NilError /\ Len(ret.node.Children) = 2
    /\ ret.node.ParentWasMap /\ ~ret.node.Children[1].ParentWasMap

\* C10: an unannotated key whose paired value is neither a scalar, a mapping
\* nor a sequence yields the empty node and the fall-through error naming the
\* breadcrumb; no node is returned for it.
C10_UnexpectedKindFallsThrough ==
    (BuildDone /\ ~Annotated /\ HasNext
       /\ NextNode.Kind \notin {"ScalarNode", "MappingNode", "SequenceNode"})
        => ret = Return(EmptyDocNode,
                        Errorf("fell through cases unexpectedly at breadcrumb: %s",
                               <<args.parentBreadcrumb>>),
                        <<>>)

\* C10 witness: an alias value under a non-empty breadcrumb
C10_Witness ==
    /\ BuildDone /\ ~Annotated /\ HasNext /\ NextNode.Kind = "AliasNode"
    /\ args.parentBreadcrumb = <<"p">>
    /\ ret.err.type = "errorString" /\ ret.err.fmtArgs = <<<<"p">>>>

====
